---- MODULE Spec2Model ----
(***************************************************************************)
(* Validation of a student document by the pydantic models of              *)
(* day_4/day_4_helpers.py: Demographics, Academics, Behavioral,            *)
(* Activities and DigitalMetrics composed into CannizzaroStudent.          *)
(*                                                                         *)
(* A Python str is a sequence of one-character strings, so that lower()    *)
(* and strip() are computed and not assumed. A dict is a function whose    *)
(* domain is the set of keys present. Raw values have the JSON type their  *)
(* field declares (int, str, list of str) or are absent; the coercion      *)
(* pydantic applies to values of another type is outside the model.        *)
(***************************************************************************)
EXTENDS Integers, Sequences, FiniteSets, TLC

VARIABLES raw, pc, outcome

vars == <<raw, pc, outcome>>

(***************************************************************************)
(* Python str.lower() and str.strip() on the ASCII range.                  *)
(***************************************************************************)
UpperToLower ==
  "A" :> "a" @@ "B" :> "b" @@ "C" :> "c" @@ "D" :> "d" @@ "E" :> "e" @@
  "F" :> "f" @@ "G" :> "g" @@ "H" :> "h" @@ "I" :> "i" @@ "J" :> "j" @@
  "K" :> "k" @@ "L" :> "l" @@ "M" :> "m" @@ "N" :> "n" @@ "O" :> "o" @@
  "P" :> "p" @@ "Q" :> "q" @@ "R" :> "r" @@ "S" :> "s" @@ "T" :> "t" @@
  "U" :> "u" @@ "V" :> "v" @@ "W" :> "w" @@ "X" :> "x" @@ "Y" :> "y" @@
  "Z" :> "z"

Whitespace == {" ", "\t", "\n", "\r"}

LowerChar(c) == IF c \in DOMAIN UpperToLower THEN UpperToLower[c] ELSE c

lower(s) == [i \in 1..Len(s) |-> LowerChar(s[i])]

RECURSIVE lstrip(_)
lstrip(s) ==
  IF Len(s) > 0 /\ s[1] \in Whitespace THEN lstrip(SubSeq(s, 2, Len(s))) ELSE s

RECURSIVE rstrip(_)
rstrip(s) ==
  IF Len(s) > 0 /\ s[Len(s)] \in Whitespace
  THEN rstrip(SubSeq(s, 1, Len(s) - 1))
  ELSE s

strip(s) == rstrip(lstrip(s))

\* `x in list` for a Python list.
InList(x, xs) == \E i \in 1..Len(xs) : xs[i] = x

(***************************************************************************)
(* The Literal types and the lists of valid options.                       *)
(***************************************************************************)
ClassSectionType_Upper == {<<"A">>, <<"B">>, <<"C">>, <<"D">>, <<"E">>}

ClassSectionType == {<<"a">>, <<"b">>, <<"c">>, <<"d">>, <<"e">>}

WeekendStyleType == {<<"c","h","i","l","l">>, <<"p","a","r","t","y">>, <<"e","x","p","l","o","r","e">>, <<"s","t","u","d","y">>}

BestWorkTimeType == {1, 2, 3, 4}

HumorStyleType == {<<"d","r","y">>, <<"q","u","i","r","k","y">>, <<"d","a","r","k">>, <<"b","a","s","i","c">>}

VALID_SPORTS_Cased ==
  << <<"S","o","c","c","e","r">>,
     <<"b","a","s","k","e","t","b","a","l","l">>,
     <<"v","o","l","l","e","y","b","a","l","l">>,
     <<"t","e","n","n","i","s">>,
     <<"s","w","i","m","m","i","n","g">>,
     <<"r","o","w","i","n","g">>,
     <<"r","u","n","n","i","n","g">>,
     <<"c","y","c","l","i","n","g">>,
     <<"s","k","i","i","n","g">>,
     <<"m","a","r","t","i","a","l","_","a","r","t","s">>,
     <<"n","o","n","e">> >>

VALID_SPORTS ==
  << <<"s","o","c","c","e","r">>,
     <<"b","a","s","k","e","t","b","a","l","l">>,
     <<"v","o","l","l","e","y","b","a","l","l">>,
     <<"t","e","n","n","i","s">>,
     <<"s","w","i","m","m","i","n","g">>,
     <<"r","o","w","i","n","g">>,
     <<"r","u","n","n","i","n","g">>,
     <<"c","y","c","l","i","n","g">>,
     <<"s","k","i","i","n","g">>,
     <<"m","a","r","t","i","a","l","_","a","r","t","s">>,
     <<"n","o","n","e">> >>

VALID_MUSIC_GENRES ==
  << <<"p","o","p">>,
     <<"r","o","c","k">>,
     <<"h","i","p","_","h","o","p">>,
     <<"r","a","p">>,
     <<"e","d","m">>,
     <<"c","l","a","s","s","i","c","a","l">>,
     <<"j","a","z","z">>,
     <<"r","_","a","n","d","_","b">>,
     <<"c","o","u","n","t","r","y">>,
     <<"m","e","t","a","l">>,
     <<"i","n","d","i","e">>,
     <<"l","a","t","i","n">>,
     <<"k","p","o","p">>,
     <<"o","t","h","e","r">> >>

VALID_HOBBIES ==
  << <<"g","a","m","i","n","g">>,
     <<"r","e","a","d","i","n","g">>,
     <<"c","o","o","k","i","n","g">>,
     <<"p","h","o","t","o","g","r","a","p","h","y">>,
     <<"a","r","t">>,
     <<"m","u","s","i","c">>,
     <<"t","r","a","v","e","l">>,
     <<"h","i","k","i","n","g">>,
     <<"m","o","v","i","e","s">>,
     <<"a","n","i","m","e">>,
     <<"p","r","o","g","r","a","m","m","i","n","g">>,
     <<"h","a","c","k","a","t","h","o","n","s">>,
     <<"f","a","s","h","i","o","n">>,
     <<"f","i","t","n","e","s","s">>,
     <<"s","o","c","i","a","l","_","m","e","d","i","a">>,
     <<"p","o","d","c","a","s","t","s">>,
     <<"c","r","a","f","t","s">>,
     <<"v","o","l","u","n","t","e","e","r","i","n","g">>,
     <<"l","a","n","g","u","a","g","e","s">>,
     <<"w","r","i","t","i","n","g">>,
     <<"n","o","n","e">> >>

VALID_SUBJECTS ==
  << <<"m","a","t","h">>,
     <<"p","h","y","s","i","c","s">>,
     <<"c","h","e","m","i","s","t","r","y">>,
     <<"b","i","o","l","o","g","y">>,
     <<"c","o","m","p","u","t","e","r","_","s","c","i","e","n","c","e">>,
     <<"l","i","t","e","r","a","t","u","r","e">>,
     <<"h","i","s","t","o","r","y">>,
     <<"a","r","t">>,
     <<"m","u","s","i","c">>,
     <<"e","c","o","n","o","m","i","c","s">>,
     <<"p","h","i","l","o","s","o","p","h","y">>,
     <<"p","h","y","s","i","c","a","l","_","e","d","u","c","a","t","i","o","n">>,
     <<"f","o","r","e","i","g","n","_","l","a","n","g","u","a","g","e","s">>,
     <<"e","n","g","i","n","e","e","r","i","n","g">>,
     <<"o","t","h","e","r">> >>


(***************************************************************************)
(* One entry of a ValidationError: the location, pydantic's error type,    *)
(* and for a ValueError raised by a field validator what its message       *)
(* quotes (named) and the list of options it prints (allowed).             *)
(***************************************************************************)
Err(loc, type) == [loc |-> loc, type |-> type, named |-> <<>>, allowed |-> <<>>]

ValueErr(loc, named, allowed) ==
  [loc |-> loc, type |-> "value_error", named |-> named, allowed |-> allowed]

NoValue == <<>>

Ok(v) == [errs |-> <<>>, val |-> v]

Fail(e) == [errs |-> <<e>>, val |-> NoValue]

\* A required field (Field(...)) that the mapping does not hold.
Missing(loc) == Fail(Err(loc, "missing"))

(***************************************************************************)
(* The Field(...) constraints.                                             *)
(***************************************************************************)
\* str with min_length and max_length
StrField(v, min_length, max_length, loc) ==
  IF Len(v) < min_length THEN Fail(Err(loc, "string_too_short"))
  ELSE IF Len(v) > max_length THEN Fail(Err(loc, "string_too_long"))
  ELSE Ok(v)

IntGeLe_NoUpper(v, ge, le, loc) ==
  IF v < ge THEN Fail(Err(loc, "greater_than_equal")) ELSE Ok(v)

\* int with ge and le
IntGeLe(v, ge, le, loc) ==
  IF v < ge THEN Fail(Err(loc, "greater_than_equal"))
  ELSE IF v > le THEN Fail(Err(loc, "less_than_equal"))
  ELSE Ok(v)

\* int with gt and le
IntGtLe(v, gt, le, loc) ==
  IF v <= gt THEN Fail(Err(loc, "greater_than"))
  ELSE IF v > le THEN Fail(Err(loc, "less_than_equal"))
  ELSE Ok(v)

\* a Literal[...] type: the value is compared as given
LiteralField(v, allowed, loc) ==
  IF v \in allowed THEN Ok(v) ELSE Fail(Err(loc, "literal_error"))

ListMinLength_Unchecked(v, min_length, loc) == Ok(v)

\* List[str] with min_length
ListMinLength(v, min_length, loc) ==
  IF Len(v) < min_length THEN Fail(Err(loc, "too_short")) ELSE Ok(v)

(***************************************************************************)
(* The field validators. Each runs after the field's own constraints       *)
(* passed (a field_validator in its default mode) on the value they left.  *)
(***************************************************************************)
validate_subject_Unnormalized(v, loc) ==
  LET v_lower == strip(lower(v))
  IN IF ~InList(v_lower, VALID_SUBJECTS)
     THEN Fail(ValueErr(loc, <<>>, VALID_SUBJECTS))
     ELSE Ok(v)

validate_subject(v, loc) ==
  LET v_lower == strip(lower(v))
  IN IF ~InList(v_lower, VALID_SUBJECTS)
     THEN Fail(ValueErr(loc, <<>>, VALID_SUBJECTS))
     ELSE Ok(v_lower)

\* The loop `for x in result: if x not in valid: raise`: the first element, in
\* list order, that is not a valid option; 0 when there is none.
FirstInvalid(result, valid) ==
  IF \E i \in 1..Len(result) : ~InList(result[i], valid)
  THEN CHOOSE i \in 1..Len(result) :
         /\ ~InList(result[i], valid)
         /\ \A j \in 1..(i - 1) : InList(result[j], valid)
  ELSE 0

validate_sports_Unnormalized(v, loc) ==
  LET result == [i \in 1..Len(v) |-> strip(lower(v[i]))]
      bad == FirstInvalid(result, VALID_SPORTS)
  IN IF bad # 0
     THEN Fail(ValueErr(loc, <<result[bad]>>, VALID_SPORTS))
     ELSE Ok(v)

validate_sports_CollectAll(v, loc) ==
  LET result == [i \in 1..Len(v) |-> strip(lower(v[i]))]
      invalid == SelectSeq(result, LAMBDA x : ~InList(x, VALID_SPORTS))
  IN IF Len(invalid) > 0
     THEN Fail(ValueErr(loc, invalid, VALID_SPORTS))
     ELSE Ok(result)

validate_sports(v, loc) ==
  LET result == [i \in 1..Len(v) |-> strip(lower(v[i]))]
      bad == FirstInvalid(result, VALID_SPORTS)
  IN IF bad # 0
     THEN Fail(ValueErr(loc, <<result[bad]>>, VALID_SPORTS))
     ELSE Ok(result)

validate_genres(v, loc) ==
  LET result == [i \in 1..Len(v) |-> strip(lower(v[i]))]
      bad == FirstInvalid(result, VALID_MUSIC_GENRES)
  IN IF bad # 0
     THEN Fail(ValueErr(loc, <<result[bad]>>, VALID_MUSIC_GENRES))
     ELSE Ok(result)

validate_hobbies(v, loc) ==
  LET result == [i \in 1..Len(v) |-> strip(lower(v[i]))]
      bad == FirstInvalid(result, VALID_HOBBIES)
  IN IF bad # 0
     THEN Fail(ValueErr(loc, <<result[bad]>>, VALID_HOBBIES))
     ELSE Ok(result)

\* A field whose constraints passed goes on to its validator.
Then(r, validated) == IF Len(r.errs) = 0 THEN validated ELSE r

(***************************************************************************)
(* A BaseModel: every declared field is validated whatever the fields      *)
(* before it gave, the errors are gathered in declaration order, and the   *)
(* instance exists only when there is none.                                *)
(***************************************************************************)
RECURSIVE Collect_FailFast(_)
Collect_FailFast(rs) ==
  IF Len(rs) = 0 THEN <<>>
  ELSE IF Len(rs[1].errs) > 0 THEN rs[1].errs
  ELSE Collect_FailFast(Tail(rs))

RECURSIVE Collect(_)
Collect(rs) == IF Len(rs) = 0 THEN <<>> ELSE rs[1].errs \o Collect(Tail(rs))

BaseModel(names, rs) ==
  LET errs == Collect(rs)
  IN [errs |-> errs,
      val  |-> IF Len(errs) = 0
               THEN [f \in {names[i] : i \in 1..Len(names)} |->
                       rs[CHOOSE i \in 1..Len(names) : names[i] = f].val]
               ELSE NoValue]

Demographics(g, loc) ==
  LET alias ==
        IF "alias" \in DOMAIN g
        THEN StrField(g["alias"], 3, 30, loc \o <<"alias">>)
        ELSE Missing(loc \o <<"alias">>)
      siblings ==
        IF "siblings" \in DOMAIN g
        THEN IntGeLe(g["siblings"], 0, 20, loc \o <<"siblings">>)
        ELSE Missing(loc \o <<"siblings">>)
      commute_time_min ==
        IF "commute_time_min" \in DOMAIN g
        THEN IntGtLe(g["commute_time_min"], 0, 180, loc \o <<"commute_time_min">>)
        ELSE Missing(loc \o <<"commute_time_min">>)
      class_section ==
        IF "class_section" \in DOMAIN g
        THEN LiteralField(g["class_section"], ClassSectionType, loc \o <<"class_section">>)
        ELSE Missing(loc \o <<"class_section">>)
      hometown ==
        IF "hometown" \in DOMAIN g
        THEN StrField(g["hometown"], 2, 50, loc \o <<"hometown">>)
        ELSE Missing(loc \o <<"hometown">>)
  IN BaseModel(<<"alias", "siblings", "commute_time_min", "class_section", "hometown">>,
               <<alias, siblings, commute_time_min, class_section, hometown>>)

Academics(g, loc) ==
  LET academic_interest ==
        IF "academic_interest" \in DOMAIN g
        THEN IntGeLe(g["academic_interest"], 1, 5, loc \o <<"academic_interest">>)
        ELSE Missing(loc \o <<"academic_interest">>)
      favorite_subject ==
        IF "favorite_subject" \in DOMAIN g
        THEN validate_subject(g["favorite_subject"], loc \o <<"favorite_subject">>)
        ELSE Missing(loc \o <<"favorite_subject">>)
  IN BaseModel(<<"academic_interest", "favorite_subject">>,
               <<academic_interest, favorite_subject>>)

Behavioral(g, loc) ==
  LET social_style ==
        IF "social_style" \in DOMAIN g
        THEN IntGeLe(g["social_style"], 1, 5, loc \o <<"social_style">>)
        ELSE Missing(loc \o <<"social_style">>)
      weekend_style ==
        IF "weekend_style" \in DOMAIN g
        THEN LiteralField(g["weekend_style"], WeekendStyleType, loc \o <<"weekend_style">>)
        ELSE Missing(loc \o <<"weekend_style">>)
      best_work_time ==
        IF "best_work_time" \in DOMAIN g
        THEN LiteralField(g["best_work_time"], BestWorkTimeType, loc \o <<"best_work_time">>)
        ELSE Missing(loc \o <<"best_work_time">>)
      humor_style ==
        IF "humor_style" \in DOMAIN g
        THEN LiteralField(g["humor_style"], HumorStyleType, loc \o <<"humor_style">>)
        ELSE Missing(loc \o <<"humor_style">>)
  IN BaseModel(<<"social_style", "weekend_style", "best_work_time", "humor_style">>,
               <<social_style, weekend_style, best_work_time, humor_style>>)

Activities(g, loc) ==
  LET sports ==
        IF "sports" \in DOMAIN g
        THEN LET r == ListMinLength(g["sports"], 1, loc \o <<"sports">>)
             IN Then(r, validate_sports(r.val, loc \o <<"sports">>))
        ELSE Missing(loc \o <<"sports">>)
      music_genres ==
        IF "music_genres" \in DOMAIN g
        THEN LET r == ListMinLength(g["music_genres"], 1, loc \o <<"music_genres">>)
             IN Then(r, validate_genres(r.val, loc \o <<"music_genres">>))
        ELSE Missing(loc \o <<"music_genres">>)
      hobbies ==
        IF "hobbies" \in DOMAIN g
        THEN LET r == ListMinLength(g["hobbies"], 1, loc \o <<"hobbies">>)
             IN Then(r, validate_hobbies(r.val, loc \o <<"hobbies">>))
        ELSE Missing(loc \o <<"hobbies">>)
  IN BaseModel(<<"sports", "music_genres", "hobbies">>,
               <<sports, music_genres, hobbies>>)

DigitalMetrics(g, loc) ==
  LET avg_screen_time_min ==
        IF "avg_screen_time_min" \in DOMAIN g
        THEN IntGeLe(g["avg_screen_time_min"], 0, 1440, loc \o <<"avg_screen_time_min">>)
        ELSE Missing(loc \o <<"avg_screen_time_min">>)
      phone_pickups_daily ==
        IF "phone_pickups_daily" \in DOMAIN g
        THEN IntGeLe(g["phone_pickups_daily"], 0, 500, loc \o <<"phone_pickups_daily">>)
        ELSE Missing(loc \o <<"phone_pickups_daily">>)
  IN BaseModel(<<"avg_screen_time_min", "phone_pickups_daily">>,
               <<avg_screen_time_min, phone_pickups_daily>>)

(***************************************************************************)
(* The main model.                                                         *)
(***************************************************************************)
\* The fields CannizzaroStudent declares, in declaration order.
StudentFields ==
  <<"demographics", "academics", "behavioral", "activities", "digital_metrics">>

Config_extra_Allow == "allow"

\* class Config: extra
Config_extra == "ignore"

\* The keys of the input that are no declared field, in some order.
RECURSIVE ExtraErrs(_)
ExtraErrs(keys) ==
  IF keys = {} THEN <<>>
  ELSE LET k == CHOOSE x \in keys : TRUE
       IN <<Err(<<k>>, "extra_forbidden")>> \o ExtraErrs(keys \ {k})

Outcome_Partial(errs, record) ==
  [ok |-> Len(errs) = 0, record |-> record, errors |-> errs]

\* What the caller gets: the instance, or a ValidationError holding the errors.
Outcome(errs, record) ==
  IF Len(errs) = 0
  THEN [ok |-> TRUE, record |-> record, errors |-> <<>>]
  ELSE [ok |-> FALSE, record |-> NoValue, errors |-> errs]

CannizzaroStudent(data) ==
  LET demographics ==
        IF "demographics" \in DOMAIN data
        THEN Demographics(data["demographics"], <<"demographics">>)
        ELSE Missing(<<"demographics">>)
      academics ==
        IF "academics" \in DOMAIN data
        THEN Academics(data["academics"], <<"academics">>)
        ELSE Missing(<<"academics">>)
      behavioral ==
        IF "behavioral" \in DOMAIN data
        THEN Behavioral(data["behavioral"], <<"behavioral">>)
        ELSE Missing(<<"behavioral">>)
      activities ==
        IF "activities" \in DOMAIN data
        THEN Activities(data["activities"], <<"activities">>)
        ELSE Missing(<<"activities">>)
      digital_metrics ==
        IF "digital_metrics" \in DOMAIN data
        THEN DigitalMetrics(data["digital_metrics"], <<"digital_metrics">>)
        ELSE Missing(<<"digital_metrics">>)
      rs == <<demographics, academics, behavioral, activities, digital_metrics>>
      declared == {StudentFields[i] : i \in 1..Len(StudentFields)}
      extras == DOMAIN data \ declared
      errs == Collect(rs) \o
              (IF Config_extra = "forbid" THEN ExtraErrs(extras) ELSE <<>>)
      kept == IF Config_extra = "allow" THEN declared \cup extras ELSE declared
      record == [k \in kept |->
                   IF k \in declared
                   THEN rs[CHOOSE i \in 1..Len(StudentFields) : StudentFields[i] = k].val
                   ELSE data[k]]
  IN Outcome(errs, record)

(***************************************************************************)
(* The documents validated. A value that may be absent is <<>> or <<v>>.   *)
(***************************************************************************)
None == <<>>

Some(v) == <<v>>

\* The dict holding the keys of c whose value is present.
MkGroup(c) == [f \in {x \in DOMAIN c : Len(c[x]) = 1} |-> c[f][1]]

MkRaw(c) ==
  [k \in {x \in DOMAIN c : Len(c[x]) = 1} |->
     IF k = "_id" THEN c[k][1] ELSE MkGroup(c[k][1])]

\* A string of n characters.
Chars(n) == [i \in 1..n |-> "x"]

\* A document every field of which is valid.
Base ==
  [demographics |->
     [alias |-> <<"n","e","o">>, siblings |-> 2, commute_time_min |-> 30,
      class_section |-> <<"a">>, hometown |-> <<"r","o","m","e">>],
   academics |->
     [academic_interest |-> 3, favorite_subject |-> <<"m","a","t","h">>],
   behavioral |->
     [social_style |-> 3, weekend_style |-> <<"c","h","i","l","l">>, best_work_time |-> 1,
      humor_style |-> <<"d","r","y">>],
   activities |->
     [sports |-> <<<<"s","o","c","c","e","r">>>>, music_genres |-> <<<<"r","o","c","k">>>>,
      hobbies |-> <<<<"a","r","t">>>>],
   digital_metrics |->
     [avg_screen_time_min |-> 120, phone_pickups_daily |-> 50]]

\* The document built from Base with the values of `faults` (a function from
\* <<group, field>>, or <<key, "">> for a top-level key, to a value or None)
\* in place of Base's.
Faulty(faults) ==
  MkRaw([g \in DOMAIN Base \cup {"_id"} |->
    IF <<g, "">> \in DOMAIN faults THEN faults[<<g, "">>]
    ELSE IF g = "_id" THEN None
    ELSE Some([f \in DOMAIN Base[g] |->
                 IF <<g, f>> \in DOMAIN faults THEN faults[<<g, f>>]
                 ELSE Some(Base[g][f])])])

\* What each place of the document may hold instead of Base's value.
Deviations ==
  <<"demographics", "">> :> {None} @@
  <<"academics", "">> :> {None} @@
  <<"behavioral", "">> :> {None} @@
  <<"activities", "">> :> {None} @@
  <<"digital_metrics", "">> :> {None} @@
  <<"_id", "">> :> {Some(<<"a","b","c","1","2","3">>)} @@
  <<"demographics", "alias">> :> {None, Some(<<"a","b">>), Some(Chars(31)), Some(<<" ","N","e","o"," ">>)} @@
  <<"demographics", "siblings">> :> {None, Some(-1), Some(21)} @@
  <<"demographics", "commute_time_min">> :> {None, Some(0), Some(200)} @@
  <<"demographics", "class_section">> :> {None, Some(<<"f">>), Some(<<"A">>)} @@
  <<"demographics", "hometown">> :> {None, Some(<<"x">>), Some(Chars(51))} @@
  <<"academics", "academic_interest">> :> {None, Some(0), Some(6)} @@
  <<"academics", "favorite_subject">> :>
     {None, Some(<<"M","a","t","h">>), Some(<<" ","O","t","h","e","r">>), Some(<<"U","n","d","e","r","w","a","t","e","r"," ","B","a","s","k","e","t"," ","W","e","a","v","i","n","g">>)} @@
  <<"behavioral", "social_style">> :> {None, Some(6)} @@
  <<"behavioral", "weekend_style">> :> {None, Some(<<"s","l","e","e","p">>)} @@
  <<"behavioral", "best_work_time">> :> {None, Some(0), Some(5)} @@
  <<"behavioral", "humor_style">> :> {None, Some(<<"D","R","Y">>)} @@
  <<"activities", "sports">> :>
     {None, Some(<<>>), Some(<<<<"S","o","c","c","e","r">>, <<"T","E","N","N","I","S">>>>),
      Some(<<<<"s","o","c","c","e","r">>, <<"f","o","o","t","b","a","l","l">>>>)} @@
  <<"activities", "music_genres">> :> {None, Some(<<>>), Some(<<<<"p","o","l","k","a">>>>)} @@
  <<"activities", "hobbies">> :>
     {None, Some(<<>>), Some(<<<<"n","o","n","e">>, <<" ","N","o","n","e">>>>), Some(<<<<"n","a","p","p","i","n","g">>>>)} @@
  <<"digital_metrics", "avg_screen_time_min">> :> {None, Some(-1), Some(1441)} @@
  <<"digital_metrics", "phone_pickups_daily">> :> {None, Some(501)}

\* At most MaxFaults places of a document deviate from Base.
MaxFaults == 2

\* The places, in some fixed order.
RECURSIVE SetToSeq(_)
SetToSeq(S) ==
  IF S = {} THEN <<>>
  ELSE LET x == CHOOSE y \in S : TRUE IN <<x>> \o SetToSeq(S \ {x})

Sites == SetToSeq(DOMAIN Deviations)

\* The ways to deviate at no more than k of the places from the i-th on.
RECURSIVE FaultsFrom(_, _)
FaultsFrom(i, k) ==
  IF i > Len(Sites) \/ k = 0 THEN {<<>>}
  ELSE FaultsFrom(i + 1, k) \cup
       {(Sites[i] :> d) @@ f : d \in Deviations[Sites[i]], f \in FaultsFrom(i + 1, k - 1)}

FaultSets(k) == FaultsFrom(1, k)

NoResult == [ok |-> FALSE, record |-> NoValue, errors |-> <<>>]

Init ==
  /\ raw \in {Faulty(fs) : fs \in FaultSets(MaxFaults)}
  /\ pc = "start"
  /\ outcome = NoResult

\* student = CannizzaroStudent(**raw)
Validate ==
  /\ pc = "start"
  /\ outcome' = CannizzaroStudent(raw)
  /\ pc' = "done"
  /\ UNCHANGED raw

Next == Validate

Spec == Init /\ [][Next]_vars

(***************************************************************************)
(* Documents for the integer bounds: every integer field at, and one       *)
(* beyond, each end of its range.                                          *)
(***************************************************************************)
RangeFaults ==
  {(<<"demographics", "siblings">> :> Some(c.siblings)) @@
   (<<"demographics", "commute_time_min">> :> Some(c.commute_time_min)) @@
   (<<"academics", "academic_interest">> :> Some(c.academic_interest)) @@
   (<<"behavioral", "social_style">> :> Some(c.social_style)) @@
   (<<"digital_metrics", "avg_screen_time_min">> :> Some(c.avg_screen_time_min)) @@
   (<<"digital_metrics", "phone_pickups_daily">> :> Some(c.phone_pickups_daily)) :
     c \in [siblings : {-1, 0, 20, 21},
            commute_time_min : {0, 1, 180, 181},
            academic_interest : {0, 1, 5, 6},
            social_style : {0, 1, 5, 6},
            avg_screen_time_min : {-1, 0, 1440, 1441},
            phone_pickups_daily : {-1, 0, 500, 501}]}

InitRange ==
  /\ raw \in {Faulty(fs) : fs \in RangeFaults}
  /\ pc = "start"
  /\ outcome = NoResult

SpecRange == InitRange /\ [][Next]_vars

(***************************************************************************)
(* Documents for the enumerations: values in the literal set, values that  *)
(* differ from one by case or surrounding whitespace, and others.          *)
(***************************************************************************)
EnumFaults ==
  {(<<"demographics", "class_section">> :> Some(c.class_section)) @@
   (<<"behavioral", "weekend_style">> :> Some(c.weekend_style)) @@
   (<<"behavioral", "best_work_time">> :> Some(c.best_work_time)) @@
   (<<"behavioral", "humor_style">> :> Some(c.humor_style)) :
     c \in [class_section : {<<"a">>, <<"e">>, <<"A">>, <<" ","a">>, <<"b"," ">>, <<"E","\n">>, <<"f">>, <<>>},
            weekend_style : {<<"c","h","i","l","l">>, <<"s","t","u","d","y">>, <<"P","A","R","T","Y">>, <<" ","e","x","p","l","o","r","e"," ">>, <<"s","l","e","e","p">>},
            best_work_time : {0, 1, 4, 5},
            humor_style : {<<"d","r","y">>, <<"b","a","s","i","c">>, <<"D","a","r","k">>, <<"q","u","i","r","k","y","\t">>, <<"s","i","l","l","y">>}]}

InitEnum ==
  /\ raw \in {Faulty(fs) : fs \in EnumFaults}
  /\ pc = "start"
  /\ outcome = NoResult

SpecEnum == InitEnum /\ [][Next]_vars

(***************************************************************************)
(* Documents for the vocabularies: lists of at most MaxListLen elements.   *)
(***************************************************************************)
MaxListLen == 2

SeqsUpTo(S, n) == UNION {[1..k -> S] : k \in 0..n}

VocabFaults ==
  {(<<"academics", "favorite_subject">> :> Some(c.favorite_subject)) @@
   (<<"activities", "sports">> :> Some(c.sports)) @@
   (<<"activities", "music_genres">> :> Some(c.music_genres)) @@
   (<<"activities", "hobbies">> :> Some(c.hobbies)) :
     c \in [favorite_subject : {<<"m","a","t","h">>, <<" ","C","o","m","p","u","t","e","r","_","S","c","i","e","n","c","e","\n">>, <<"a","l","c","h","e","m","y">>},
            sports : SeqsUpTo({<<"S","o","c","c","e","r">>, <<"s","o","c","c","e","r"," ">>, <<"f","o","o","t","b","a","l","l">>, <<" ","C","r","i","c","k","e","t">>},
                              MaxListLen),
            music_genres : SeqsUpTo({<<"r","o","c","k">>, <<"P","o","l","k","a">>}, MaxListLen),
            hobbies : SeqsUpTo({<<" ","A","r","t">>, <<"n","a","p","p","i","n","g">>}, MaxListLen)]}

InitVocab ==
  /\ raw \in {Faulty(fs) : fs \in VocabFaults}
  /\ pc = "start"
  /\ outcome = NoResult

SpecVocab == InitVocab /\ [][Next]_vars

(***************************************************************************)
(* Documents for normalization: string fields in several spellings.        *)
(***************************************************************************)
NormFaults ==
  {(<<"demographics", "alias">> :> Some(c.alias)) @@
   (<<"demographics", "hometown">> :> Some(c.hometown)) @@
   (<<"demographics", "class_section">> :> Some(c.class_section)) @@
   (<<"academics", "favorite_subject">> :> Some(c.favorite_subject)) @@
   (<<"behavioral", "weekend_style">> :> Some(c.weekend_style)) @@
   (<<"behavioral", "humor_style">> :> Some(c.humor_style)) @@
   (<<"activities", "sports">> :> Some(c.sports)) @@
   (<<"activities", "music_genres">> :> Some(c.music_genres)) @@
   (<<"activities", "hobbies">> :> Some(c.hobbies)) :
     c \in [alias : {<<"n","e","o">>, <<" ","N","e","o">>, <<"a","b"," ">>},
            hometown : {<<"r","o","m","e">>, <<"R","o","m","e"," ">>},
            class_section : {<<"a">>, <<"b">>, <<"A">>},
            favorite_subject : {<<"m","a","t","h">>, <<" ","M","a","t","h"," ">>, <<"A","R","T">>},
            weekend_style : {<<"c","h","i","l","l">>, <<"P","a","r","t","y">>},
            humor_style : {<<"d","r","y">>, <<"d","a","r","k"," ">>},
            sports : SeqsUpTo({<<"S","o","c","c","e","r">>, <<"n","o","n","e"," ">>}, MaxListLen),
            music_genres : SeqsUpTo({<<"R","o","c","k">>}, MaxListLen),
            hobbies : SeqsUpTo({<<" ","a","r","t">>}, MaxListLen)]}

InitNorm ==
  /\ raw \in {Faulty(fs) : fs \in NormFaults}
  /\ pc = "start"
  /\ outcome = NoResult

SpecNorm == InitNorm /\ [][Next]_vars

(***************************************************************************)
(* What the properties below speak of.                                     *)
(***************************************************************************)
Done == pc = "done"

\* Trim, then lowercase.
normalizeScalar(s) == lower(strip(s))

normalizeList(xs) == [i \in 1..Len(xs) |-> normalizeScalar(xs[i])]

ToSet(xs) == {xs[i] : i \in 1..Len(xs)}

GroupKeys == {"demographics", "academics", "behavioral", "activities", "digital_metrics"}

\* The fields of each group.
GroupFields ==
  [demographics |-> {"alias", "siblings", "commute_time_min", "class_section", "hometown"},
   academics |-> {"academic_interest", "favorite_subject"},
   behavioral |-> {"social_style", "weekend_style", "best_work_time", "humor_style"},
   activities |-> {"sports", "music_genres", "hobbies"},
   digital_metrics |-> {"avg_screen_time_min", "phone_pickups_daily"}]

\* Every place an error can be reported at, in group order and, inside a group,
\* in field-declaration order; a group's own place comes first.
DeclaredLocs ==
  << <<"demographics">>,
     <<"demographics", "alias">>, <<"demographics", "siblings">>,
     <<"demographics", "commute_time_min">>, <<"demographics", "class_section">>,
     <<"demographics", "hometown">>,
     <<"academics">>,
     <<"academics", "academic_interest">>, <<"academics", "favorite_subject">>,
     <<"behavioral">>,
     <<"behavioral", "social_style">>, <<"behavioral", "weekend_style">>,
     <<"behavioral", "best_work_time">>, <<"behavioral", "humor_style">>,
     <<"activities">>,
     <<"activities", "sports">>, <<"activities", "music_genres">>,
     <<"activities", "hobbies">>,
     <<"digital_metrics">>,
     <<"digital_metrics", "avg_screen_time_min">>,
     <<"digital_metrics", "phone_pickups_daily">> >>

Rank(loc) == CHOOSE i \in 1..Len(DeclaredLocs) : DeclaredLocs[i] = loc

ErrorsAt(loc) == SelectSeq(outcome.errors, LAMBDA e : e.loc = loc)

ErrorsUnder(g) == SelectSeq(outcome.errors, LAMBDA e : e.loc[1] = g)

\* The constraint of field f of group g, on a value v, as the data model states it.
Satisfies(g, f, v) ==
  CASE f = "alias" -> Len(v) >= 3 /\ Len(v) <= 30
    [] f = "siblings" -> v >= 0 /\ v <= 20
    [] f = "commute_time_min" -> v >= 1 /\ v <= 180
    [] f = "class_section" -> v \in {<<"a">>, <<"b">>, <<"c">>, <<"d">>, <<"e">>}
    [] f = "hometown" -> Len(v) >= 2 /\ Len(v) <= 50
    [] f = "academic_interest" -> v >= 1 /\ v <= 5
    [] f = "favorite_subject" -> normalizeScalar(v) \in ToSet(VALID_SUBJECTS)
    [] f = "social_style" -> v >= 1 /\ v <= 5
    [] f = "weekend_style" -> v \in {<<"c","h","i","l","l">>, <<"p","a","r","t","y">>, <<"e","x","p","l","o","r","e">>, <<"s","t","u","d","y">>}
    [] f = "best_work_time" -> v \in {1, 2, 3, 4}
    [] f = "humor_style" -> v \in {<<"d","r","y">>, <<"q","u","i","r","k","y">>, <<"d","a","r","k">>, <<"b","a","s","i","c">>}
    [] f = "sports" ->
         Len(v) >= 1 /\ ToSet(normalizeList(v)) \subseteq ToSet(VALID_SPORTS)
    [] f = "music_genres" ->
         Len(v) >= 1 /\ ToSet(normalizeList(v)) \subseteq ToSet(VALID_MUSIC_GENRES)
    [] f = "hobbies" ->
         Len(v) >= 1 /\ ToSet(normalizeList(v)) \subseteq ToSet(VALID_HOBBIES)
    [] f = "avg_screen_time_min" -> v >= 0 /\ v <= 1440
    [] f = "phone_pickups_daily" -> v >= 0 /\ v <= 500

\* Field f of a group g that the document holds is absent or violates its constraint.
Violates(g, f) == f \notin DOMAIN raw[g] \/ ~Satisfies(g, f, raw[g][f])

AllValid ==
  \A g \in GroupKeys :
    /\ g \in DOMAIN raw
    /\ \A f \in GroupFields[g] : ~Violates(g, f)

(***************************************************************************)
(* C1: validating a document gives either a complete record holding the    *)
(* five validated groups and no error, or a non-empty list of errors and   *)
(* no record at all; the record is given exactly when every group is       *)
(* there and no field of it violates its constraint.                       *)
(***************************************************************************)
C1_RecordOrErrors ==
  Done =>
    /\ outcome.ok <=> AllValid
    /\ outcome.ok =>
         /\ Len(outcome.errors) = 0
         /\ DOMAIN outcome.record = GroupKeys
         /\ \A g \in GroupKeys : DOMAIN outcome.record[g] = GroupFields[g]
    /\ ~outcome.ok =>
         /\ Len(outcome.errors) > 0
         /\ DOMAIN outcome.record = {}

\* A document that fails although one of its groups is wholly valid.
C1_Witness ==
  /\ Done
  /\ ~outcome.ok
  /\ "demographics" \in DOMAIN raw
  /\ Len(ErrorsUnder("demographics")) = 0

(***************************************************************************)
(* C6 as stated: an empty list for sports, music_genres or hobbies fails   *)
(* with one TooShort error on that field and no vocabulary error, and a    *)
(* document without the activities key fails with exactly three            *)
(* MissingField errors, one for each field of the group.                   *)
(***************************************************************************)
EmptyListTooShort ==
  \A f \in GroupFields["activities"] :
    ( /\ "activities" \in DOMAIN raw
      /\ f \in DOMAIN raw["activities"]
      /\ Len(raw["activities"][f]) = 0 )
    => ErrorsAt(<<"activities", f>>) = <<Err(<<"activities", f>>, "too_short")>>

C6_Original ==
  Done =>
    /\ EmptyListTooShort
    /\ "activities" \notin DOMAIN raw =>
         ErrorsUnder("activities") =
           <<Err(<<"activities", "sports">>, "missing"),
             Err(<<"activities", "music_genres">>, "missing"),
             Err(<<"activities", "hobbies">>, "missing")>>

(***************************************************************************)
(* C6 as the code has it: an empty list fails with one too_short error on  *)
(* that field and no vocabulary error, and a document without the          *)
(* activities key fails with exactly one missing error, at activities.     *)
(***************************************************************************)
C6_MissingGroupIsOneError ==
  Done =>
    /\ EmptyListTooShort
    /\ "activities" \notin DOMAIN raw =>
         ErrorsUnder("activities") = <<Err(<<"activities">>, "missing")>>

\* A document whose only fault is that it has no activities key was validated.
C6_Witness ==
  /\ Done
  /\ "activities" \notin DOMAIN raw
  /\ "demographics" \in DOMAIN raw
  /\ Len(outcome.errors) = 1

(***************************************************************************)
(* C7: top-level keys other than the five groups never change the outcome: *)
(* it is the outcome of the document without them, and a record has        *)
(* exactly the five group keys.                                            *)
(***************************************************************************)
C7_ExtraKeysIgnored ==
  Done =>
    /\ outcome = CannizzaroStudent([k \in DOMAIN raw \cap GroupKeys |-> raw[k]])
    /\ outcome.ok => DOMAIN outcome.record = GroupKeys

\* A valid document with an _id was validated.
C7_Witness == Done /\ "_id" \in DOMAIN raw /\ outcome.ok

(***************************************************************************)
(* C8: the error list holds exactly one entry for each violating field of  *)
(* each group the document holds (and one for each group it does not       *)
(* hold), in group order and, inside a group, in field-declaration order.  *)
(***************************************************************************)
C8_ExhaustiveOrdered ==
  Done =>
    /\ \A i \in 1..Len(outcome.errors) : InList(outcome.errors[i].loc, DeclaredLocs)
    /\ \A i, j \in 1..Len(outcome.errors) :
         i < j => Rank(outcome.errors[i].loc) < Rank(outcome.errors[j].loc)
    /\ \A g \in GroupKeys :
         /\ Len(ErrorsAt(<<g>>)) = (IF g \in DOMAIN raw THEN 0 ELSE 1)
         /\ \A f \in GroupFields[g] :
              Len(ErrorsAt(<<g, f>>)) =
                (IF g \in DOMAIN raw /\ Violates(g, f) THEN 1 ELSE 0)

\* Fields of two groups fail in one document.
C8_Witness ==
  /\ Done
  /\ Len(outcome.errors) = 2
  /\ Len(outcome.errors[1].loc) = 2
  /\ Len(outcome.errors[2].loc) = 2
  /\ outcome.errors[1].loc[1] # outcome.errors[2].loc[1]

(***************************************************************************)
(* C9: the four lists of valid options a document is validated against.    *)
(***************************************************************************)
\* The tokens of a list are pairwise distinct, lowercase and trimmed.
WellFormed(vocabulary) ==
  /\ \A i, j \in 1..Len(vocabulary) : i # j => vocabulary[i] # vocabulary[j]
  /\ \A i \in 1..Len(vocabulary) :
       /\ lower(vocabulary[i]) = vocabulary[i]
       /\ strip(vocabulary[i]) = vocabulary[i]
       /\ Len(vocabulary[i]) > 0

VocabulariesWellFormed ==
  /\ WellFormed(VALID_SPORTS)
  /\ WellFormed(VALID_MUSIC_GENRES)
  /\ WellFormed(VALID_HOBBIES)
  /\ WellFormed(VALID_SUBJECTS)
  /\ InList(<<"n","o","n","e">>, VALID_SPORTS)
  /\ InList(<<"n","o","n","e">>, VALID_HOBBIES)
  /\ InList(<<"o","t","h","e","r">>, VALID_SUBJECTS)

\* C9 as stated: a document is validated against lists of pairwise distinct,
\* lowercase, trimmed tokens: 11 sports (with "none"), 14 music genres,
\* 21 hobbies (with "none") and 14 subjects (with "other").
C9_Original ==
  Done =>
    /\ VocabulariesWellFormed
    /\ Len(VALID_SPORTS) = 11
    /\ Len(VALID_MUSIC_GENRES) = 14
    /\ Len(VALID_HOBBIES) = 21
    /\ Len(VALID_SUBJECTS) = 14

\* C9 as the code has it: a document is validated against lists of pairwise
\* distinct, lowercase, trimmed tokens: 11 sports (with "none"), 14 music
\* genres, 21 hobbies (with "none") and 15 subjects (with "other").
C9_Vocabularies ==
  Done =>
    /\ VocabulariesWellFormed
    /\ Len(VALID_SPORTS) = 11
    /\ Len(VALID_MUSIC_GENRES) = 14
    /\ Len(VALID_HOBBIES) = 21
    /\ Len(VALID_SUBJECTS) = 15

\* The fifteenth subject was accepted.
C9_Witness ==
  /\ Done
  /\ outcome.ok
  /\ outcome.record["academics"]["favorite_subject"] = VALID_SUBJECTS[15]

(***************************************************************************)
(* C2 as stated: a non-empty list of sports, music genres or hobbies with  *)
(* elements whose normalized form is no valid option fails with a single   *)
(* error on that field that names every such element.                      *)
(***************************************************************************)
Vocabulary(f) ==
  CASE f = "sports" -> VALID_SPORTS
    [] f = "music_genres" -> VALID_MUSIC_GENRES
    [] f = "hobbies" -> VALID_HOBBIES

\* The elements of a list whose normalized form is not in the vocabulary,
\* normalized, in list order.
Absent(f, xs) ==
  SelectSeq(normalizeList(xs), LAMBDA x : x \notin ToSet(Vocabulary(f)))

C2_Original ==
  Done =>
    \A f \in GroupFields["activities"] :
      LET absent == Absent(f, raw["activities"][f])
          errs == ErrorsAt(<<"activities", f>>)
      IN Len(absent) > 0 =>
           /\ Len(errs) = 1
           /\ errs[1].type = "value_error"
           /\ ToSet(errs[1].named) = ToSet(absent)

(***************************************************************************)
(* C2 as the code has it: such a list fails with a single error on that    *)
(* field that names the first such element in list order, and no other,    *)
(* and prints the field's whole list of valid options.                     *)
(***************************************************************************)
C2_FirstInvalidNamed ==
  Done =>
    \A f \in GroupFields["activities"] :
      LET absent == Absent(f, raw["activities"][f])
          errs == ErrorsAt(<<"activities", f>>)
      IN Len(absent) > 0 =>
           /\ Len(errs) = 1
           /\ errs[1].type = "value_error"
           /\ errs[1].named = <<absent[1]>>
           /\ errs[1].allowed = Vocabulary(f)

\* A list of sports with two different invalid elements was validated.
C2_Witness ==
  /\ Done
  /\ Cardinality(ToSet(Absent("sports", raw["activities"]["sports"]))) = 2

(***************************************************************************)
(* C3: an integer field accepts both ends of its range and rejects the     *)
(* value one below and the value one above with a single out-of-range      *)
(* error on that field; with every other field valid, the document is      *)
(* accepted in the first case and that error is the only one in the second.*)
(***************************************************************************)
IntBounds ==
  {<<"demographics", "siblings", 0, 20>>,
   <<"demographics", "commute_time_min", 1, 180>>,
   <<"academics", "academic_interest", 1, 5>>,
   <<"behavioral", "social_style", 1, 5>>,
   <<"digital_metrics", "avg_screen_time_min", 0, 1440>>,
   <<"digital_metrics", "phone_pickups_daily", 0, 500>>}

OutOfRange == {"greater_than_equal", "greater_than", "less_than_equal"}

OthersValid(g, f) ==
  \A g2 \in GroupKeys :
    /\ g2 \in DOMAIN raw
    /\ \A f2 \in GroupFields[g2] : <<g2, f2>> # <<g, f>> => ~Violates(g2, f2)

C3_Bounds ==
  Done =>
    \A b \in IntBounds :
      LET g == b[1]
          f == b[2]
          lo == b[3]
          hi == b[4]
          v == raw[g][f]
          errs == ErrorsAt(<<g, f>>)
      IN /\ v \in {lo, hi} =>
              /\ Len(errs) = 0
              /\ OthersValid(g, f) => outcome.ok /\ outcome.record[g][f] = v
         /\ v \in {lo - 1, hi + 1} =>
              /\ Len(errs) = 1
              /\ errs[1].type \in OutOfRange
              /\ OthersValid(g, f) => ~outcome.ok /\ outcome.errors = errs

\* siblings = 21 in an otherwise valid document was validated.
C3_Witness ==
  /\ Done
  /\ raw["demographics"]["siblings"] = 21
  /\ OthersValid("demographics", "siblings")

(***************************************************************************)
(* C4 as stated: a document that validates still validates, to an equal    *)
(* record, after every string field (alias, hometown, class_section,       *)
(* favorite_subject, weekend_style, humor_style) and every element of the  *)
(* lists (sports, music_genres, hobbies) is trimmed and lowercased.        *)
(***************************************************************************)
NormalizedBy(scalars, lists) ==
  [g \in DOMAIN raw |->
     [f \in DOMAIN raw[g] |->
        IF f \in scalars THEN normalizeScalar(raw[g][f])
        ELSE IF f \in lists THEN normalizeList(raw[g][f])
        ELSE raw[g][f]]]

ListFields == {"sports", "music_genres", "hobbies"}

normalize ==
  NormalizedBy({"alias", "hometown", "class_section", "favorite_subject",
                "weekend_style", "humor_style"}, ListFields)

C4_Original ==
  (Done /\ outcome.ok) => CannizzaroStudent(normalize) = outcome

(***************************************************************************)
(* C4 as the code has it: the same, for the fields that validation itself  *)
(* normalizes or compares with lowercase literals (class_section,          *)
(* favorite_subject, weekend_style, humor_style and the three lists);      *)
(* alias and hometown are kept as given.                                   *)
(***************************************************************************)
normalizeChecked ==
  NormalizedBy({"class_section", "favorite_subject", "weekend_style",
                "humor_style"}, ListFields)

C4_NormalizeCheckedFields ==
  (Done /\ outcome.ok) => CannizzaroStudent(normalizeChecked) = outcome

\* A document that validates and that normalizing changes was validated.
C4_Witness ==
  /\ Done
  /\ outcome.ok
  /\ normalizeChecked # raw
  /\ raw["demographics"]["alias"] # normalizeScalar(raw["demographics"]["alias"])

(***************************************************************************)
(* C5 as stated: class_section, weekend_style and humor_style are accepted *)
(* exactly when their trimmed, lowercased form is in the literal set;      *)
(* best_work_time is compared as given.                                    *)
(***************************************************************************)
StringEnums ==
  {<<"demographics", "class_section", {<<"a">>, <<"b">>, <<"c">>, <<"d">>, <<"e">>}>>,
   <<"behavioral", "weekend_style", {<<"c","h","i","l","l">>, <<"p","a","r","t","y">>, <<"e","x","p","l","o","r","e">>, <<"s","t","u","d","y">>}>>,
   <<"behavioral", "humor_style", {<<"d","r","y">>, <<"q","u","i","r","k","y">>, <<"d","a","r","k">>, <<"b","a","s","i","c">>}>>}

Accepted(g, f) == Len(ErrorsAt(<<g, f>>)) = 0

BestWorkTimeAsGiven ==
  Accepted("behavioral", "best_work_time")
    <=> raw["behavioral"]["best_work_time"] \in {1, 2, 3, 4}

C5_Original ==
  Done =>
    /\ \A e \in StringEnums :
         Accepted(e[1], e[2]) <=> normalizeScalar(raw[e[1]][e[2]]) \in e[3]
    /\ BestWorkTimeAsGiven

(***************************************************************************)
(* C5 as the code has it: class_section, weekend_style and humor_style are *)
(* compared as given, like best_work_time: a value is accepted exactly     *)
(* when it is itself in the literal set, and is rejected with a single     *)
(* literal error otherwise.                                                *)
(***************************************************************************)
C5_EnumsComparedAsGiven ==
  Done =>
    /\ \A e \in StringEnums :
         /\ Accepted(e[1], e[2]) <=> raw[e[1]][e[2]] \in e[3]
         /\ ~Accepted(e[1], e[2]) =>
              ErrorsAt(<<e[1], e[2]>>) = <<Err(<<e[1], e[2]>>, "literal_error")>>
    /\ BestWorkTimeAsGiven

\* A class_section that differs from a literal only by case was validated.
C5_Witness ==
  /\ Done
  /\ raw["demographics"]["class_section"] = <<"A">>
  /\ ~Accepted("demographics", "class_section")

(***************************************************************************)
(* C10: the record of a document that validates holds favorite_subject     *)
(* trimmed and lowercased, and each list with every element trimmed and    *)
(* lowercased, of the same length, in the same order, duplicates kept;     *)
(* every value it holds there is a valid option.                           *)
(***************************************************************************)
C10_StoredNormalized ==
  (Done /\ outcome.ok) =>
    /\ outcome.record["academics"]["favorite_subject"] =
         normalizeScalar(raw["academics"]["favorite_subject"])
    /\ outcome.record["academics"]["favorite_subject"] \in ToSet(VALID_SUBJECTS)
    /\ \A f \in ListFields :
         LET given == raw["activities"][f]
             kept == outcome.record["activities"][f]
         IN /\ Len(kept) = Len(given)
            /\ \A i \in 1..Len(given) :
                 /\ kept[i] = normalizeScalar(given[i])
                 /\ kept[i] \in ToSet(Vocabulary(f))

\* A list of sports whose two elements differ as given and are equal once
\* normalized was accepted.
C10_Witness ==
  /\ Done
  /\ outcome.ok
  /\ Len(raw["activities"]["sports"]) = 2
  /\ raw["activities"]["sports"][1] # raw["activities"]["sports"][2]
  /\ outcome.record["activities"]["sports"][1] = outcome.record["activities"]["sports"][2]

====
